---- MODULE Spec2Model ----
(***************************************************************************)
(* A model of lv4.py, the Loyverse export script: the pagination walker    *)
(* get_all_data, the two receipt flatteners, calculate_payment_totals,     *)
(* calculate_top_items, calculate_sales_metrics, export_to_excel and main. *)
(***************************************************************************)
EXTENDS Integers, Sequences, FiniteSets, TLC

(***************************************************************************)
(* Bounds of the model.                                                    *)
(***************************************************************************)
\* the largest number of requests one walk is followed for
MaxRequests == 3
\* the largest number of receipts of a run
MaxReceipts == 2
\* the largest number of item names among the line items
MaxItemNames == 6
\* the largest number of rows of a grouped table of the summary
MaxTableLen == 7

VARIABLES
    \* get_all_data
    endpoint,    \* the endpoint argument
    params,      \* the params argument, reset to None after a good response
    url,         \* <<>> is None, <<e>> the base url, <<e, c>> the url with a cursor
    all_data,    \* the accumulated list
    requests,    \* the number of requests.get calls issued
    history,     \* the responses received so far, in order
    wpc,         \* "loop", "break" or "returned"
    result,      \* the returned list
    \* the records of one run
    heap,        \* the dicts and lists of the run, by address
    receipts,    \* the raw receipts: a list of references
    payments,    \* the rows of flatten_receipt_payments
    line_items,  \* the rows of flatten_receipt_line_items
    pay_src,     \* for each payments row, the index of the receipt it was made from
    line_src,    \* for each line_items row, the index of the receipt it was made from
    done,        \* the names of the steps that have run
    mutated,     \* the last in-place change made through a row: <<view, row, address>>
    payment_totals,  \* the dict payment_totals of calculate_payment_totals
    raised,      \* the exception that left main, "" when there is none
    \* export_to_excel
    shifts,      \* the raw shifts: a list of references
    writer,      \* "unopened", or "saved" once pd.ExcelWriter was opened and left
    sheets,      \* the names of the sheets written, in order
    grouped,     \* <<payment_summary, daily_sales, paid_out_by_date>> before padding
    padded,      \* the same three tables after reindex(range(max_rows))
    top_items,   \* top_items_df
    metrics,     \* sales_metrics
    summary,     \* combined_summary
    exported     \* what export_to_excel returned: "True", "False", "" before

walkVars == <<endpoint, params, url, all_data, requests, history, wpc, result>>

flatVars == <<heap, receipts, payments, line_items, pay_src, line_src, done, mutated>>

totalsVars == <<payment_totals, raised>>

exportVars ==
    <<shifts, writer, sheets, grouped, padded, top_items, metrics, summary, exported>>

recordVars == <<flatVars, totalsVars, exportVars>>

vars == <<walkVars, recordVars>>

\* params=None, and a key that a JSON object does not have
None == "None"
NoKey == "NoKey"

\* the walk variables are not part of a run over records
WalkIdle ==
    /\ endpoint = ""
    /\ params = None
    /\ url = <<>>
    /\ all_data = <<>>
    /\ requests = 0
    /\ history = <<>>
    /\ wpc = "idle"
    /\ result = <<>>

\* no totals yet, and nothing raised
TotalsIdle ==
    /\ payment_totals = <<>>
    /\ raised = ""

\* export_to_excel has not run
ExportIdle ==
    /\ shifts = <<>>
    /\ writer = "unopened"
    /\ sheets = <<>>
    /\ grouped = <<>>
    /\ padded = <<>>
    /\ top_items = <<>>
    /\ metrics = <<>>
    /\ summary = <<>>
    /\ exported = ""

\* no records, and nothing written: what is left of a run when only the
\* summary is built
RecordsIdleBut ==
    /\ heap = <<>>
    /\ receipts = <<>>
    /\ payments = <<>>
    /\ line_items = <<>>
    /\ pay_src = <<>>
    /\ line_src = <<>>
    /\ done = {}
    /\ mutated = <<>>
    /\ TotalsIdle
    /\ shifts = <<>>
    /\ writer = "unopened"
    /\ sheets = <<>>
    /\ exported = ""

\* the records of a run are not part of a walk
RecordsIdle ==
    /\ heap = <<>>
    /\ receipts = <<>>
    /\ payments = <<>>
    /\ line_items = <<>>
    /\ pay_src = <<>>
    /\ line_src = <<>>
    /\ done = {}
    /\ mutated = <<>>
    /\ TotalsIdle
    /\ ExportIdle

(***************************************************************************)
(* Python values and objects.  A value is a number, a string, None or a    *)
(* reference to a dict or a list on the heap; Absent marks a key that is   *)
(* not in a dict.  A dict is a function over Keys, a list a sequence.      *)
(***************************************************************************)
Num(n) == [t |-> "num", n |-> n, s |-> ""]
Str(x) == [t |-> "str", n |-> 0, s |-> x]
Ref(a) == [t |-> "ref", n |-> a, s |-> ""]
NoneValue == [t |-> "none", n |-> 0, s |-> ""]
Absent == [t |-> "absent", n |-> 0, s |-> ""]

\* (output column, key of the payment) of payment_record.update({...})
PaymentFieldMap ==
    << <<"payment_type_id", "payment_type_id">>, <<"payment_name", "name">>,
       <<"payment_type", "type">>, <<"money_amount", "money_amount">>,
       <<"paid_at", "paid_at">>, <<"payment_details", "payment_details">> >>

\* (output column, key of the line item) of line_item_record.update({...})
LineItemFieldMap ==
    << <<"line_item_id", "id">>, <<"item_id", "item_id">>,
       <<"variant_id", "variant_id">>, <<"item_name", "item_name">>,
       <<"variant_name", "variant_name">>, <<"sku", "sku">>,
       <<"quantity", "quantity">>, <<"price", "price">>,
       <<"gross_total_money", "gross_total_money">>,
       <<"total_money", "total_money">>, <<"cost_total", "cost_total">>,
       <<"line_note", "line_note">>, <<"line_taxes", "line_taxes">>,
       <<"total_discount", "total_discount">>,
       <<"line_discounts", "line_discounts">>,
       <<"line_modifiers", "line_modifiers">> >>

FieldMapKeys(fieldMap) ==
    {fieldMap[i][1] : i \in DOMAIN fieldMap} \cup {fieldMap[i][2] : i \in DOMAIN fieldMap}

Keys ==
    {"receipt_type", "total_money", "receipt_date", "payments", "line_items",
     "payment_total_by_type", "opened_at", "created_at", "ended_at",
     "updated_at", "paid_out", "note"}
        \cup FieldMapKeys(PaymentFieldMap) \cup FieldMapKeys(LineItemFieldMap)

EmptyDict == [k \in Keys |-> Absent]

\* the dict with the items of f
DictOf(f) == [k \in Keys |-> IF k \in DOMAIN f THEN f[k] ELSE Absent]

DictObj(d) == [kind |-> "dict", d |-> d, l |-> <<>>]
ListObj(l) == [kind |-> "list", d |-> EmptyDict, l |-> l]

\* h[ref][k] of a dict that has the key
Item(h, ref, k) == h[ref.n].d[k]

\* key in dict
HasKey(h, ref, k) == Item(h, ref, k) # Absent

\* dict.get(k)
Get(h, ref, k) == IF HasKey(h, ref, k) THEN Item(h, ref, k) ELSE NoneValue

\* dict.get(k, default)
GetOr(h, ref, k, default) == IF HasKey(h, ref, k) THEN Item(h, ref, k) ELSE default

(***************************************************************************)
(* flatten_receipt_payments and flatten_receipt_line_items.  The state of  *)
(* the loops is st: the heap, the output list flattened_data and, for each *)
(* output row, the index of the receipt in whose pass it was appended.     *)
(***************************************************************************)
\* record.update({out: sub.get(key), ...}) on a copy of the dict d
Updated(d, h, sub, fieldMap) ==
    [k \in Keys |->
        IF \E i \in DOMAIN fieldMap : fieldMap[i][1] = k
        THEN LET i == CHOOSE i \in DOMAIN fieldMap : fieldMap[i][1] = k
             IN  Get(h, sub, fieldMap[i][2])
        ELSE d[k]]

\* for i, sub in enumerate(base_record[subKey]): copy, update, append
RECURSIVE SubRows(_, _, _, _, _, _)
SubRows(st, base, subs, i, idx, fieldMap) ==
    IF i > Len(subs) THEN st
    ELSE LET row == DictObj(Updated(st.heap[base].d, st.heap, subs[i], fieldMap))
             next == [heap |-> Append(st.heap, row),
                      out |-> Append(st.out, Ref(Len(st.heap) + 1)),
                      src |-> Append(st.src, idx)]
         IN  SubRows(next, base, subs, i + 1, idx, fieldMap)

\* one pass of `for receipt in receipts:`
FlattenOne(st, receipt, idx, subKey, fieldMap) ==
    LET base == Len(st.heap) + 1
        copied == [st EXCEPT !.heap = Append(@, DictObj(st.heap[receipt.n].d))]
        sub == copied.heap[base].d[subKey]
    IN  IF sub # Absent
        THEN SubRows(copied, base, copied.heap[sub.n].l, 1, idx, fieldMap)
        ELSE [copied EXCEPT !.out = Append(@, Ref(base)), !.src = Append(@, idx)]

RECURSIVE FlattenFrom(_, _, _, _, _)
FlattenFrom(st, recs, idx, subKey, fieldMap) ==
    IF idx > Len(recs) THEN st
    ELSE FlattenFrom(FlattenOne(st, recs[idx], idx, subKey, fieldMap),
                     recs, idx + 1, subKey, fieldMap)

flatten_receipt_payments(h, recs) ==
    FlattenFrom([heap |-> h, out |-> <<>>, src |-> <<>>], recs, 1,
                "payments", PaymentFieldMap)

flatten_receipt_line_items(h, recs) ==
    FlattenFrom([heap |-> h, out |-> <<>>, src |-> <<>>], recs, 1,
                "line_items", LineItemFieldMap)

(***************************************************************************)
(* Receipts as the API returns them, written as literals and loaded onto   *)
(* the heap.  A sub-collection literal is [has, l]: the key is absent, or  *)
(* it holds the list l.                                                    *)
(***************************************************************************)
NoList == [has |-> FALSE, l |-> <<>>]
ListOf(l) == [has |-> TRUE, l |-> l]

\* the heap after the dicts of the literals subs are appended to it;
\* nested is the key under which a sub-record holds an object of its own
RECURSIVE LoadSubs(_, _, _)
LoadSubs(h, subs, nested) ==
    IF subs = <<>> THEN h
    ELSE LET sub == Head(subs)
             inner == IF sub.nested THEN Append(h, DictObj(EmptyDict)) ELSE h
             d == IF sub.nested
                  THEN [DictOf(sub.fields) EXCEPT ![nested] = Ref(Len(inner))]
                  ELSE DictOf(sub.fields)
         IN  LoadSubs(Append(inner, DictObj(d)), Tail(subs), nested)

\* the addresses of the sub-record dicts LoadSubs(h, subs, nested) appended
RECURSIVE SubRefs(_, _)
SubRefs(size, subs) ==
    IF subs = <<>> THEN <<>>
    ELSE LET at == size + (IF Head(subs).nested THEN 2 ELSE 1)
         IN  <<Ref(at)>> \o SubRefs(at, Tail(subs))

\* the heap after the sub-collection coll is loaded, and the value of its key
LoadList(h, coll, nested) ==
    IF ~coll.has THEN [heap |-> h, value |-> Absent]
    ELSE LET h1 == LoadSubs(h, coll.l, nested)
             h2 == Append(h1, ListObj(SubRefs(Len(h), coll.l)))
         IN  [heap |-> h2, value |-> Ref(Len(h2))]

\* the heap after one receipt literal is loaded; its dict is the last object
LoadReceipt(h, lit) ==
    LET p == LoadList(h, lit.payments, "payment_details")
        q == LoadList(p.heap, lit.line_items, "line_taxes")
        d == [DictOf(lit.fields) EXCEPT !["payments"] = p.value,
                                        !["line_items"] = q.value]
    IN  Append(q.heap, DictObj(d))

RECURSIVE LoadReceipts(_, _)
LoadReceipts(st, lits) ==
    IF lits = <<>> THEN st
    ELSE LET h == LoadReceipt(st.heap, Head(lits))
         IN  LoadReceipts([heap |-> h, out |-> Append(st.out, Ref(Len(h)))],
                          Tail(lits))

\* all sequences over S of length at most n
SeqsUpTo(S, n) == UNION {[1..k -> S] : k \in 0..n}

(***************************************************************************)
(* The flatteners on their own: both are applied to the same receipts, as  *)
(* main does, and a consumer of the rows then changes in place one object  *)
(* it reaches through one row.                                             *)
(***************************************************************************)
ReceiptFields ==
    "receipt_type" :> Str("SALE") @@ "total_money" :> Num(100)
        @@ "receipt_date" :> Str("2024-01-01")

\* a payment, with or without a payment_details dict of its own
FlatPayment(nested) ==
    [fields |-> ("name" :> Str("Cash") @@ "money_amount" :> Num(30)),
     nested |-> nested]

\* a line item, with or without a line_taxes object of its own; its
\* total_money collides with the receipt's
FlatLineItem(nested) ==
    [fields |-> ("item_name" :> Str("A") @@ "quantity" :> Num(2)
                    @@ "total_money" :> Num(40)),
     nested |-> nested]

SubLists(S) == {NoList} \cup {ListOf(l) : l \in SeqsUpTo(S, 2)}

FlatReceipts ==
    {[fields |-> ReceiptFields, payments |-> p, line_items |-> q] :
        p \in SubLists({FlatPayment(b) : b \in BOOLEAN}),
        q \in SubLists({FlatLineItem(b) : b \in BOOLEAN})}

FlattenInit ==
    /\ WalkIdle
    /\ \E lits \in SeqsUpTo(FlatReceipts, MaxReceipts) :
        LET st == LoadReceipts([heap |-> <<>>, out |-> <<>>], lits)
        IN  /\ heap = st.heap
            /\ receipts = st.out
    /\ payments = <<>>
    /\ line_items = <<>>
    /\ pay_src = <<>>
    /\ line_src = <<>>
    /\ done = {}
    /\ mutated = <<>>
    /\ TotalsIdle
    /\ ExportIdle

\* payments = flatten_receipt_payments(receipts)
FlattenReceiptPayments ==
    /\ done = {}
    /\ LET st == flatten_receipt_payments(heap, receipts)
       IN  /\ heap' = st.heap
           /\ payments' = st.out
           /\ pay_src' = st.src
    /\ done' = {"payments"}
    /\ UNCHANGED <<receipts, line_items, line_src, mutated>>
    /\ UNCHANGED <<walkVars, totalsVars, exportVars>>

\* line_items = flatten_receipt_line_items(receipts)
FlattenReceiptLineItems ==
    /\ done = {"payments"}
    /\ LET st == flatten_receipt_line_items(heap, receipts)
       IN  /\ heap' = st.heap
           /\ line_items' = st.out
           /\ line_src' = st.src
    /\ done' = {"payments", "line_items"}
    /\ UNCHANGED <<receipts, payments, pay_src, mutated>>
    /\ UNCHANGED <<walkVars, totalsVars, exportVars>>

\* the references an object holds
RefValues(h, a) ==
    {v \in {h[a].d[k] : k \in Keys} \cup {h[a].l[i] : i \in DOMAIN h[a].l} :
        v.t = "ref"}

RECURSIVE ReachFrom(_, _, _)
ReachFrom(h, frontier, seen) ==
    IF frontier = {} THEN seen
    ELSE LET next == {v.n : v \in UNION {RefValues(h, a) : a \in frontier}} \ seen
         IN  ReachFrom(h, next, seen \cup next)

\* the addresses of the objects reachable from the value v, v's own included
Reach(h, v) == IF v.t = "ref" THEN ReachFrom(h, {v.n}, {v.n}) ELSE {}

\* an in-place change of an object: d['note'] = 1, or l.append(None)
Touched(obj) ==
    IF obj.kind = "dict" THEN [obj EXCEPT !.d["note"] = Num(1)]
    ELSE [obj EXCEPT !.l = Append(@, NoneValue)]

RowsOf(view) == IF view = "payments" THEN payments ELSE line_items

\* a consumer changes in place an object it reaches through row i of a view
MutateThroughRow ==
    /\ done = {"payments", "line_items"}
    /\ mutated = <<>>
    /\ \E view \in {"payments", "line_items"} :
        \E i \in DOMAIN RowsOf(view) :
            \E a \in Reach(heap, RowsOf(view)[i]) :
                /\ heap' = [heap EXCEPT ![a] = Touched(@)]
                /\ mutated' = <<view, i, a>>
    /\ UNCHANGED <<receipts, payments, line_items, pay_src, line_src, done>>
    /\ UNCHANGED <<walkVars, totalsVars, exportVars>>

FlattenNext ==
    \/ FlattenReceiptPayments
    \/ FlattenReceiptLineItems
    \/ MutateThroughRow

SpecFlatten == FlattenInit /\ [][FlattenNext]_vars

(***************************************************************************)
(* Properties of the flatteners.                                           *)
(***************************************************************************)
\* the positions of the rows made from receipt idx
RowsFrom(src, idx) == {j \in DOMAIN src : src[j] = idx}

\* the sub-records of a receipt under subKey; none when the key is absent
SubRecords(h, receipt, subKey) ==
    IF HasKey(h, receipt, subKey) THEN h[Item(h, receipt, subKey).n].l ELSE <<>>

\* a receipt whose sub-collection is absent or empty gives one row, equal to it
OneRowEqualToParent(rows, src, subKey) ==
    \A idx \in DOMAIN receipts :
        SubRecords(heap, receipts[idx], subKey) = <<>> =>
            /\ Cardinality(RowsFrom(src, idx)) = 1
            /\ \A j \in RowsFrom(src, idx) :
                heap[rows[j].n].d = heap[receipts[idx].n].d

\* C3: for every receipt whose payments (line_items) field is absent or is
\* present but empty, the payments (line_items) view holds exactly one row of
\* it, equal to the receipt's fields.
C3_EmptySubCollectionGivesParentRow ==
    mutated = <<>> =>
        /\ "payments" \in done => OneRowEqualToParent(payments, pay_src, "payments")
        /\ "line_items" \in done =>
                OneRowEqualToParent(line_items, line_src, "line_items")

\* the row has the parent's fields, overlaid with the mapped fields of sub
IsOverlay(row, parent, sub, fieldMap) ==
    \A k \in Keys :
        IF \E i \in DOMAIN fieldMap : fieldMap[i][1] = k
        THEN \E i \in DOMAIN fieldMap :
                /\ fieldMap[i][1] = k
                /\ heap[row.n].d[k] = Get(heap, sub, fieldMap[i][2])
        ELSE heap[row.n].d[k] = heap[parent.n].d[k]

\* a receipt with N >= 1 sub-records gives N rows, in order, each an overlay
OneRowPerSubRecord(rows, src, subKey, fieldMap) ==
    \A idx \in DOMAIN receipts :
        LET subs == SubRecords(heap, receipts[idx], subKey)
        IN  Len(subs) >= 1 =>
                /\ Cardinality(RowsFrom(src, idx)) = Len(subs)
                /\ \E first \in DOMAIN rows :
                    \A k \in 1..Len(subs) :
                        /\ first + k - 1 \in RowsFrom(src, idx)
                        /\ IsOverlay(rows[first + k - 1], receipts[idx],
                                     subs[k], fieldMap)

C4_RowsAreOverlays ==
    mutated = <<>> =>
        /\ "payments" \in done =>
                OneRowPerSubRecord(payments, pay_src, "payments", PaymentFieldMap)
        /\ "line_items" \in done =>
                OneRowPerSubRecord(line_items, line_src, "line_items",
                                   LineItemFieldMap)

\* what can be seen from the value v stays as it is in the step
SameView(v) == \A b \in Reach(heap, v) : heap'[b] = heap[b]

SrcOf(view) == IF view = "payments" THEN pay_src ELSE line_src
SubKeyOf(view) == IF view = "payments" THEN "payments" ELSE "line_items"

\* a change made through a row of a receipt with sub-records is seen through
\* no sibling row and not through the raw receipt
C4_MutationIsLocal ==
    mutated' # mutated =>
        LET view == mutated'[1]
            i == mutated'[2]
            idx == SrcOf(view)[i]
        IN  Len(SubRecords(heap, receipts[idx], SubKeyOf(view))) >= 1 =>
                /\ \A j \in RowsFrom(SrcOf(view), idx) :
                        j # i => SameView(RowsOf(view)[j])
                /\ SameView(receipts[idx])

\* C4: a receipt with N >= 1 sub-records gives N rows in sub-record order,
\* each the parent's fields overlaid with the mapped sub-fields, and changing
\* in place anything reachable from one row changes no other row and no raw
\* receipt.
C4_RowsAreIndependentCopies ==
    [](C4_RowsAreOverlays) /\ [][C4_MutationIsLocal]_vars

(***************************************************************************)
(* calculate_payment_totals.                                               *)
(***************************************************************************)
\* payment_types
PaymentTypes ==
    <<"QR Maybank", "Shopeefood", "Sedekah", "FoodPanda", "Grabfood", "Cash">>

PaymentTypeNames == {PaymentTypes[i] : i \in DOMAIN PaymentTypes}

\* float(v): the number, or the exception float raises.  The strings of the
\* model are not numerals.
Float(v) ==
    IF v.t = "num" THEN [error |-> "", n |-> v.n]
    ELSE IF v.t = "str" THEN [error |-> "ValueError", n |-> 0]
    ELSE [error |-> "TypeError", n |-> 0]

\* a row's amount with SALE and REFUND swapped
RowAmount_SignSwapped(h, row) ==
    LET total_money == Float(GetOr(h, row, "total_money", Num(0)))
        money_amount == Float(GetOr(h, row, "money_amount", Num(0)))
        amount == IF money_amount.n > 0 THEN money_amount.n ELSE total_money.n
    IN  IF total_money.error # "" THEN total_money
        ELSE IF money_amount.error # "" THEN money_amount
        ELSE [error |-> "",
              n |-> IF GetOr(h, row, "receipt_type", Str("SALE")) = Str("REFUND")
                    THEN amount ELSE -amount]

\* the signed amount one row adds to its total, or the exception of a float()
RowAmount(h, row) ==
    LET total_money == Float(GetOr(h, row, "total_money", Num(0)))
        money_amount == Float(GetOr(h, row, "money_amount", Num(0)))
        amount == IF money_amount.n > 0 THEN money_amount.n ELSE total_money.n
    IN  IF total_money.error # "" THEN total_money
        ELSE IF money_amount.error # "" THEN money_amount
        ELSE [error |-> "",
              n |-> IF GetOr(h, row, "receipt_type", Str("SALE")) = Str("REFUND")
                    THEN -amount ELSE amount]

\* payment_name in payment_totals
InTotals(name) == name.t = "str" /\ name.s \in PaymentTypeNames

\* the first loop: for receipt in receipt_data, from row i on
RECURSIVE SumTotals(_, _, _, _)
SumTotals(h, rows, i, totals) ==
    IF i > Len(rows) THEN [error |-> "", totals |-> totals]
    ELSE LET a == RowAmount(h, rows[i])
             name == Get(h, rows[i], "payment_name")
         IN  IF a.error # "" THEN [error |-> a.error, totals |-> totals]
             ELSE SumTotals(h, rows, i + 1,
                            IF InTotals(name)
                            THEN [totals EXCEPT ![name.s] = @ + a.n]
                            ELSE totals)

\* the second loop: receipt['payment_total_by_type'] = payment_totals[payment_name]
RECURSIVE WriteBack(_, _, _, _)
WriteBack(h, rows, i, totals) ==
    IF i > Len(rows) THEN h
    ELSE LET name == Get(h, rows[i], "payment_name")
         IN  WriteBack(IF InTotals(name)
                       THEN [h EXCEPT ![rows[i].n].d["payment_total_by_type"] =
                                            Num(totals[name.s])]
                       ELSE h,
                       rows, i + 1, totals)

calculate_payment_totals(h, rows) ==
    LET summed == SumTotals(h, rows, 1, [k \in PaymentTypeNames |-> 0])
    IN  IF summed.error # ""
        THEN [error |-> summed.error, heap |-> h, totals |-> summed.totals]
        ELSE [error |-> "", heap |-> WriteBack(h, rows, 1, summed.totals),
              totals |-> summed.totals]

(***************************************************************************)
(* calculate_payment_totals on the rows of flatten_receipt_payments.       *)
(***************************************************************************)
TotalsPayment(name, amount) ==
    [fields |-> ("name" :> Str(name) @@ "money_amount" :> amount),
     nested |-> FALSE]

\* Cash payments of every amount, a payment under another name of
\* payment_types and one under "Card", which is no name of payment_types, a
\* payment whose amount is null, and receipts paid in two parts
TotalsPaymentLists ==
    {NoList, ListOf(<<>>)}
        \cup {ListOf(<<TotalsPayment("Cash", Num(n))>>) : n \in {0, 30, 100}}
        \cup {ListOf(<<TotalsPayment(name, Num(30))>>) : name \in {"Grabfood", "Card"}}
        \cup {ListOf(<<TotalsPayment("Cash", NoneValue)>>),
              ListOf(<<TotalsPayment("Cash", Num(100)), TotalsPayment("Cash", Num(30))>>),
              ListOf(<<TotalsPayment("Cash", Num(30)), TotalsPayment("Grabfood", Num(30))>>),
              ListOf(<<TotalsPayment("Cash", Num(30)), TotalsPayment("Card", Num(30))>>)}

TotalsReceipt(type, p) ==
    [fields |-> [ReceiptFields EXCEPT !["receipt_type"] = type],
     payments |-> p, line_items |-> NoList]

\* sales and refunds, and a receipt that does not say which it is
TotalsReceipts ==
    {TotalsReceipt(type, p) :
        type \in {Str("SALE"), Str("REFUND")}, p \in TotalsPaymentLists}
        \cup {TotalsReceipt(Absent, ListOf(<<TotalsPayment("Cash", Num(30))>>))}

TotalsInit ==
    /\ WalkIdle
    /\ \E lits \in SeqsUpTo(TotalsReceipts, MaxReceipts) :
        LET st == LoadReceipts([heap |-> <<>>, out |-> <<>>], lits)
        IN  /\ heap = st.heap
            /\ receipts = st.out
    /\ payments = <<>>
    /\ line_items = <<>>
    /\ pay_src = <<>>
    /\ line_src = <<>>
    /\ done = {}
    /\ mutated = <<>>
    /\ TotalsIdle
    /\ ExportIdle

\* payments = calculate_payment_totals(payments)
CalculatePaymentTotals ==
    /\ done = {"payments"}
    /\ LET out == calculate_payment_totals(heap, payments)
       IN  /\ heap' = out.heap
           /\ payment_totals' = out.totals
           /\ raised' = out.error
    /\ done' = {"payments", "totals"}
    /\ UNCHANGED <<receipts, payments, line_items, pay_src, line_src, mutated>>
    /\ UNCHANGED <<walkVars, exportVars>>

TotalsNext ==
    \/ FlattenReceiptPayments
    \/ CalculatePaymentTotals

SpecTotals == TotalsInit /\ [][TotalsNext]_vars

(***************************************************************************)
(* Properties of calculate_payment_totals.                                 *)
(***************************************************************************)
\* a value float() takes; an absent key counts as 0
IsNumeric(v) == v.t = "num" \/ v = Absent

AllAmountsNumeric ==
    \A j \in DOMAIN payments :
        /\ IsNumeric(Item(heap, payments[j], "money_amount"))
        /\ IsNumeric(Item(heap, payments[j], "total_money"))

NumberOf(v) == IF v.t = "num" THEN v.n ELSE 0

IsRefund(row) == Item(heap, row, "receipt_type") = Str("REFUND")

Signed(row, n) == IF IsRefund(row) THEN -n ELSE n

\* money_amount, negated for a REFUND row
SignedMoneyAmount(row) == Signed(row, NumberOf(Item(heap, row, "money_amount")))

\* money_amount when it is above 0 and total_money otherwise, negated for a
\* REFUND row
SignedFallbackAmount(row) ==
    Signed(row, IF NumberOf(Item(heap, row, "money_amount")) > 0
                THEN NumberOf(Item(heap, row, "money_amount"))
                ELSE NumberOf(Item(heap, row, "total_money")))

\* the rows of the group k
GroupRows(k) == {j \in DOMAIN payments : Item(heap, payments[j], "payment_name") = Str(k)}

RECURSIVE SumMoneyAmount(_)
SumMoneyAmount(J) ==
    IF J = {} THEN 0
    ELSE LET j == CHOOSE x \in J : TRUE
         IN  SignedMoneyAmount(payments[j]) + SumMoneyAmount(J \ {j})

RECURSIVE SumFallbackAmount(_)
SumFallbackAmount(J) ==
    IF J = {} THEN 0
    ELSE LET j == CHOOSE x \in J : TRUE
         IN  SignedFallbackAmount(payments[j]) + SumFallbackAmount(J \ {j})

\* rows of a name outside payment_types get no total
OutsideRowsUntouched ==
    \A j \in DOMAIN payments :
        ~InTotals(Get(heap, payments[j], "payment_name")) =>
            ~HasKey(heap, payments[j], "payment_total_by_type")

TotalsRan == "totals" \in done /\ AllAmountsNumeric

NaN == [t |-> "nan", n |-> 0, s |-> ""]

\* df.columns of pd.DataFrame(rows): the keys of any row
Columns(h, rows) == {k \in Keys : \E i \in DOMAIN rows : HasKey(h, rows[i], k)}

\* row[k] of the frame
Cell(h, row, k) == IF HasKey(h, row, k) THEN Item(h, row, k) ELSE NaN

IsNull(v) == v \in {NaN, NoneValue, Absent}

\* pd.to_numeric(column, errors='coerce').fillna(0), cell by cell
ToNumeric(v) == IF v.t = "num" THEN v.n ELSE 0

\* the strings that are group keys, in the order Python sorts them
SortedStrings ==
    <<"2024-01-01", "2024-01-02", "A", "B", "C", "Card", "Cash", "D", "E", "F",
      "FoodPanda", "G", "Grabfood", "H", "QR Maybank", "Sedekah", "Shopeefood">>

RankOf(x) == CHOOSE i \in DOMAIN SortedStrings : SortedStrings[i] = x

\* v < w for two group keys of one column
KeyLess(v, w) ==
    IF v.t = "num" THEN v.n < w.n ELSE RankOf(v.s) < RankOf(w.s)

\* the keys of a groupby, ascending
RECURSIVE SortedKeys(_)
SortedKeys(S) ==
    IF S = {} THEN <<>>
    ELSE LET m == CHOOSE x \in S : \A y \in S : x = y \/ KeyLess(x, y)
         IN  <<m>> \o SortedKeys(S \ {m})

\* the sum of the field f over the entries of key k in entries i..
RECURSIVE SumOfKey(_, _, _, _)
SumOfKey(entries, k, f, i) ==
    IF i > Len(entries) THEN 0
    ELSE (IF entries[i].key = k THEN entries[i][f] ELSE 0)
            + SumOfKey(entries, k, f, i + 1)

\* df.groupby(key).agg(sum).reset_index() over entries [key, amount, quantity]:
\* one row per key that is not null, ascending by key
GroupBySum(entries) ==
    LET keys == SortedKeys({entries[i].key : i \in DOMAIN entries}
                                \ {NaN, NoneValue, Absent})
    IN  [g \in DOMAIN keys |->
            [key |-> keys[g],
             amount |-> SumOfKey(entries, keys[g], "amount", 1),
             quantity |-> SumOfKey(entries, keys[g], "quantity", 1)]]

\* every order of the rows R that is descending by amount: sort_values sorts
\* with kind='quicksort', which leaves the order of equal rows open
RECURSIVE DescendingOrders(_)
DescendingOrders(R) ==
    IF R = {} THEN {<<>>}
    ELSE UNION {{<<r>> \o rest : rest \in DescendingOrders(R \ {r})} :
                    r \in {x \in R : \A y \in R : x.amount >= y.amount}}

\* df.head(n)
FirstRows(table, n) == SubSeq(table, 1, IF Len(table) < n THEN Len(table) ELSE n)

(***************************************************************************)
(* calculate_top_items.  The result is one of a set of tables.             *)
(***************************************************************************)
\* -x for a REFUND row, x otherwise
Adjusted(h, row, x) == IF Cell(h, row, "receipt_type") = Str("REFUND") THEN -x ELSE x

TopItemColumns == {"item_name", "receipt_type", "total_money", "quantity"}

\* the (item_name, adjusted_total_money, adjusted_quantity) of the rows
TopItemEntries(h, rows) ==
    [i \in DOMAIN rows |->
        [key |-> Cell(h, rows[i], "item_name"),
         amount |-> Adjusted(h, rows[i], ToNumeric(Cell(h, rows[i], "total_money"))),
         quantity |-> Adjusted(h, rows[i], ToNumeric(Cell(h, rows[i], "quantity")))]]

\* calculate_top_items sorting ascending
calculate_top_items_Ascending(h, rows, top_n) ==
    IF ~(TopItemColumns \subseteq Columns(h, rows)) THEN {<<>>}
    ELSE LET item_summary == GroupBySum(TopItemEntries(h, rows))
             negated == {[r EXCEPT !.amount = -r.amount] :
                            r \in {item_summary[g] : g \in DOMAIN item_summary}}
         IN  {FirstRows([i \in DOMAIN order |->
                            [order[i] EXCEPT !.amount = -order[i].amount]], top_n) :
                    order \in DescendingOrders(negated)}

calculate_top_items(h, rows, top_n) ==
    IF ~(TopItemColumns \subseteq Columns(h, rows)) THEN {<<>>}
    ELSE LET item_summary == GroupBySum(TopItemEntries(h, rows))
         IN  {FirstRows(order, top_n) :
                order \in DescendingOrders({item_summary[g] : g \in DOMAIN item_summary})}

\* top_n=5
TopN == 5

(***************************************************************************)
(* calculate_top_items on line-item rows of up to MaxItemNames items.      *)
(***************************************************************************)
ItemNames == <<"A", "B", "C", "D", "E", "F", "G", "H">>

\* the price of item i: items 1 and 2 sell for 10, 3 and 4 for 20, ...
PriceOf(i) == 10 * ((i + 1) \div 2)

TopRow(i, type, quantity, money) ==
    DictObj(DictOf("item_name" :> Str(ItemNames[i]) @@ "receipt_type" :> Str(type)
                    @@ "quantity" :> quantity @@ "total_money" :> money))

\* the rows of item i: none; one sale; or a sale of two, a refund of one and
\* a row whose numbers are not numbers
TopRowsOf(i, choice) ==
    IF choice = "none" THEN <<>>
    ELSE IF choice = "sale" THEN <<TopRow(i, "SALE", Num(1), Num(PriceOf(i)))>>
    ELSE <<TopRow(i, "SALE", Num(2), Num(2 * PriceOf(i))),
           TopRow(i, "REFUND", Num(1), Num(PriceOf(i))),
           TopRow(i, "SALE", Str("n/a"), NoneValue)>>

RECURSIVE TopRows(_, _)
TopRows(choices, i) ==
    IF i > MaxItemNames THEN <<>>
    ELSE TopRowsOf(i, choices[i]) \o TopRows(choices, i + 1)

Reversed(sq) == [i \in DOMAIN sq |-> sq[Len(sq) + 1 - i]]

TopInit ==
    /\ WalkIdle
    /\ \E choices \in [1..MaxItemNames -> {"none", "sale", "sale_refund"}] :
        \E rev \in BOOLEAN :
            /\ heap = (IF rev THEN Reversed(TopRows(choices, 1))
                       ELSE TopRows(choices, 1))
            /\ line_items = [i \in 1..Len(TopRows(choices, 1)) |-> Ref(i)]
    /\ receipts = <<>>
    /\ payments = <<>>
    /\ pay_src = <<>>
    /\ line_src = <<>>
    /\ done = {}
    /\ mutated = <<>>
    /\ TotalsIdle
    /\ ExportIdle

\* top_items_df = calculate_top_items(data_dict['receipt_items'], top_n=5)
CalculateTopItems ==
    /\ done = {}
    /\ top_items' \in calculate_top_items(heap, line_items, TopN)
    /\ done' = {"top_items"}
    /\ UNCHANGED <<heap, receipts, payments, line_items, pay_src, line_src, mutated>>
    /\ UNCHANGED <<shifts, writer, sheets, grouped, padded, metrics, summary, exported>>
    /\ UNCHANGED <<walkVars, totalsVars>>

TopNext == CalculateTopItems

SpecTop == TopInit /\ [][TopNext]_vars

(***************************************************************************)
(* Properties of calculate_top_items.                                      *)
(***************************************************************************)
\* the item names of the line-item rows
ItemGroups == {Item(heap, line_items[j], "item_name") : j \in DOMAIN line_items}

ItemRows(name) == {j \in DOMAIN line_items : Item(heap, line_items[j], "item_name") = name}

IsRefundItem(j) == Item(heap, line_items[j], "receipt_type") = Str("REFUND")

\* the sum of the column k over the rows J, refund rows negated, values that
\* are not numbers counting 0
RECURSIVE SignedSum(_, _)
SignedSum(J, k) ==
    IF J = {} THEN 0
    ELSE LET j == CHOOSE x \in J : TRUE
             v == Item(heap, line_items[j], k)
             n == IF v.t = "num" THEN v.n ELSE 0
         IN  (IF IsRefundItem(j) THEN -n ELSE n) + SignedSum(J \ {j}, k)

TopNames == {top_items[i].key : i \in DOMAIN top_items}

\* the table holds min(5, groups) groups with their signed sums, descending
\* by total money, and no group left out has more than the last one in
TopItemsRanked ==
    /\ Len(top_items) = (IF Cardinality(ItemGroups) < 5 THEN Cardinality(ItemGroups) ELSE 5)
    /\ Cardinality(TopNames) = Len(top_items)
    /\ \A i \in DOMAIN top_items :
        /\ top_items[i].key \in ItemGroups
        /\ top_items[i].amount = SignedSum(ItemRows(top_items[i].key), "total_money")
        /\ top_items[i].quantity = SignedSum(ItemRows(top_items[i].key), "quantity")
    /\ \A i, j \in DOMAIN top_items : i < j => top_items[i].amount >= top_items[j].amount
    /\ \A g \in ItemGroups \ TopNames :
        \A i \in DOMAIN top_items :
            SignedSum(ItemRows(g), "total_money") <= top_items[i].amount

\* groups of equal total money are in group iteration order (ascending by
\* name), in the table and at its cut
TiesInGroupOrder ==
    /\ \A i, j \in DOMAIN top_items :
        (i < j /\ top_items[i].amount = top_items[j].amount) =>
            KeyLess(top_items[i].key, top_items[j].key)
    /\ \A g \in ItemGroups \ TopNames :
        \A i \in DOMAIN top_items :
            SignedSum(ItemRows(g), "total_money") = top_items[i].amount =>
                KeyLess(top_items[i].key, g)

\* C9 as stated: groups by item name, signed sums, the first min(5, groups)
\* descending by adjusted total money, ties in group iteration order.
C9_TopItemsStable ==
    "top_items" \in done => (TopItemsRanked /\ TiesInGroupOrder)

\* C9 without the order of ties: groups by item name, signed sums, the first
\* min(5, groups) descending by adjusted total money.
C9_TopItemsRanked ==
    "top_items" \in done => TopItemsRanked

\* six groups, one with a refund, and two groups of equal total money in the
\* table of five
C9_Witness ==
    /\ "top_items" \in done
    /\ Cardinality(ItemGroups) >= 6
    /\ Len(top_items) = 5
    /\ \E j \in DOMAIN line_items : IsRefundItem(j)
    /\ \E i, j \in DOMAIN top_items : i # j /\ top_items[i].amount = top_items[j].amount
    /\ \E i \in DOMAIN top_items :
        /\ \E j \in ItemRows(top_items[i].key) : IsRefundItem(j)
        /\ top_items[i].quantity = 1
        /\ top_items[i].amount = 10

(***************************************************************************)
(* The summary sheet of export_to_excel: the three grouped tables are      *)
(* padded to max_rows and laid side by side with the top items and the     *)
(* metrics.  A grouped table is a sequence of rows [key, amount]; its      *)
(* index is 0..len-1, and row i of the model is the row of label i-1.      *)
(***************************************************************************)
BlankRow == [key |-> NaN, amount |-> NaN]

\* the two columns of a groupby-sum
TwoColumns(table) ==
    [i \in DOMAIN table |-> [key |-> table[i].key, amount |-> Num(table[i].amount)]]

\* max(len(payment_summary), len(daily_sales), len(paid_out_by_date))
MaxRows(tables) ==
    LET a == Len(tables[1])
        b == Len(tables[2])
        c == Len(tables[3])
    IN  IF a >= b /\ a >= c THEN a ELSE IF b >= c THEN b ELSE c

\* reindex that looks the labels 1..n up, one off
Reindex_OneOff(table, n) ==
    [i \in 1..n |-> IF i + 1 \in DOMAIN table THEN table[i + 1] ELSE BlankRow]

\* table.reindex(range(n)): the row of each label 0..n-1, blank where the
\* table has no such label
Reindex(table, n) ==
    [i \in 1..n |-> IF i \in DOMAIN table THEN table[i] ELSE BlankRow]

\* lines 346-349
PadTables(tables) ==
    [t \in 1..3 |-> Reindex(tables[t], MaxRows(tables))]

MetricsLabels == <<"Total Gross Sales", "Total Net Sales", "Gross-Net Difference">>

\* metrics_values
MetricsValues(sales_metrics) ==
    <<sales_metrics.total_gross_sales, sales_metrics.total_net_sales,
      sales_metrics.sales_difference>>

\* combined_summary after the top items and the metrics are written with .loc,
\* which adds the rows the frame does not have yet
CombinedSummary(pad, top, sales_metrics) ==
    LET max_rows == Len(pad[1])
        num_top_items == IF Len(top) < 5 THEN Len(top) ELSE 5
        rows == IF max_rows >= 3 /\ max_rows >= num_top_items THEN max_rows
                ELSE IF num_top_items >= 3 THEN num_top_items ELSE 3
        Section(table) ==
            [i \in 1..rows |-> IF i <= max_rows THEN table[i] ELSE BlankRow]
        Unset(i) == IF i <= max_rows THEN NoneValue ELSE NaN
    IN  [payment |-> Section(pad[1]),
         daily |-> Section(pad[2]),
         paid_out |-> Section(pad[3]),
         top |-> [i \in 1..rows |->
                    IF i <= num_top_items
                    THEN [key |-> top[i].key, amount |-> Num(top[i].amount),
                          quantity |-> Num(top[i].quantity)]
                    ELSE [key |-> Unset(i), amount |-> Unset(i), quantity |-> Unset(i)]],
         metrics |-> [i \in 1..rows |->
                        IF i <= 3
                        THEN [label |-> Str(MetricsLabels[i]),
                              value |-> Num(MetricsValues(sales_metrics)[i])]
                        ELSE [label |-> Unset(i), value |-> Unset(i)]]]

(***************************************************************************)
(* The summary of three grouped tables of up to MaxTableLen rows.          *)
(***************************************************************************)
\* a grouped table of n rows, all different, none blank
GroupedTable(t, n) == [i \in 1..n |-> [key |-> Num(100 * t + i), amount |-> Num(i)]]

\* top_items_df of n rows
TopTable(n) == [i \in 1..n |-> [key |-> Str(ItemNames[i]), amount |-> 10 - i, quantity |-> 1]]

PadInit ==
    /\ WalkIdle
    /\ RecordsIdleBut
    /\ \E a, b, c \in 0..MaxTableLen :
        grouped = <<GroupedTable(1, a), GroupedTable(2, b), GroupedTable(3, c)>>
    /\ \E n \in {0, 2, 5} : top_items = TopTable(n)
    /\ metrics = [total_gross_sales |-> 150, total_net_sales |-> 130,
                  sales_difference |-> 20]
    /\ padded = <<>>
    /\ summary = <<>>

\* lines 345-391: pad the grouped tables and build combined_summary
AssembleSummary ==
    /\ done = {}
    /\ padded' = PadTables(grouped)
    /\ summary' = CombinedSummary(PadTables(grouped), top_items, metrics)
    /\ done' = {"summary"}
    /\ UNCHANGED <<heap, receipts, payments, line_items, pay_src, line_src, mutated>>
    /\ UNCHANGED <<shifts, writer, sheets, grouped, top_items, metrics, exported>>
    /\ UNCHANGED <<walkVars, totalsVars>>

PadNext == AssembleSummary

SpecPad == PadInit /\ [][PadNext]_vars

(***************************************************************************)
(* Properties of the padding.                                              *)
(***************************************************************************)
Longest == CHOOSE n \in {Len(grouped[t]) : t \in 1..3} :
                \A t \in 1..3 : Len(grouped[t]) <= n

SummarySections == <<summary.payment, summary.daily, summary.paid_out>>

ValidDates == {"2024-01-01", "2024-01-02"}

\* pd.to_datetime(v).date(): the date, NaT for a null, or the exception
ToDate(v) ==
    IF IsNull(v) THEN [error |-> "", value |-> NaN]
    ELSE IF v.t = "str" /\ v.s \in ValidDates THEN [error |-> "", value |-> v]
    ELSE [error |-> "ValueError", value |-> NaN]

\* float(v) of a cell: NaN stays NaN and adds nothing to a sum
CellFloat(v) == IF v = NaN THEN [error |-> "", n |-> 0] ELSE Float(v)

\* row.get(k, 0) of a row of the frame
CellOr(h, rows, row, k) == IF k \in Columns(h, rows) THEN Cell(h, row, k) ELSE Num(0)

\* the first error of a sequence of results, "" when there is none
FirstError(results) ==
    IF \E i \in DOMAIN results : results[i].error # ""
    THEN results[CHOOSE i \in DOMAIN results :
                    /\ results[i].error # ""
                    /\ \A j \in 1..(i - 1) : results[j].error = ""].error
    ELSE ""

\* the column the dates of the shifts are taken from, "" when there is none
ShiftDateField(cols) ==
    IF "opened_at" \in cols THEN "opened_at"
    ELSE IF "created_at" \in cols THEN "created_at"
    ELSE IF "ended_at" \in cols THEN "ended_at"
    ELSE IF "updated_at" \in cols THEN "updated_at"
    ELSE ""

\* the values of a sequence, each once, in the order they first appear
RECURSIVE Unique(_)
Unique(sq) ==
    IF sq = <<>> THEN <<>>
    ELSE LET rest == Unique(SubSeq(sq, 1, Len(sq) - 1))
         IN  IF \E i \in DOMAIN rest : rest[i] = sq[Len(sq)] THEN rest
             ELSE Append(rest, sq[Len(sq)])

process_shifts_data(h, shifts_data) ==
    LET cols == Columns(h, shifts_data)
        field == ShiftDateField(cols)
        dates == [i \in DOMAIN shifts_data |->
                    IF field = "" THEN [error |-> "", value |-> NoneValue]
                    ELSE ToDate(Cell(h, shifts_data[i], field))]
        paid == [i \in DOMAIN shifts_data |->
                    CellFloat(IF Cell(h, shifts_data[i], "paid_out") = NoneValue THEN NaN
                              ELSE Cell(h, shifts_data[i], "paid_out"))]
        date_only == [i \in DOMAIN dates |-> dates[i].value]
    IN  IF shifts_data = <<>> THEN [error |-> "", table |-> <<>>]
        ELSE IF FirstError(dates) # "" THEN [error |-> FirstError(dates), table |-> <<>>]
        ELSE IF "paid_out" \in cols
        THEN IF FirstError(paid) # "" THEN [error |-> FirstError(paid), table |-> <<>>]
             ELSE [error |-> "",
                   table |-> TwoColumns(GroupBySum(
                        [i \in DOMAIN shifts_data |->
                            [key |-> date_only[i], amount |-> paid[i].n,
                             quantity |-> 0]]))]
        ELSE [error |-> "",
              table |-> [i \in DOMAIN Unique(date_only) |->
                            [key |-> Unique(date_only)[i], amount |-> Num(0)]]]

\* the sum of total_money over the rows of the type, from row i on
RECURSIVE SumOfType(_, _, _, _)
SumOfType(h, rows, type, i) ==
    IF i > Len(rows) THEN 0
    ELSE (IF Cell(h, rows[i], "receipt_type") = Str(type)
          THEN ToNumeric(Cell(h, rows[i], "total_money")) ELSE 0)
            + SumOfType(h, rows, type, i + 1)

calculate_sales_metrics(h, rows) ==
    IF rows # <<>> /\ {"receipt_type", "total_money"} \subseteq Columns(h, rows)
    THEN LET gross_sales == SumOfType(h, rows, "SALE", 1)
             refunds_total == SumOfType(h, rows, "REFUND", 1)
             net_sales == gross_sales - refunds_total
         IN  [total_gross_sales |-> gross_sales,
              total_net_sales |-> net_sales,
              sales_difference |-> gross_sales - net_sales]
    ELSE [total_gross_sales |-> 0, total_net_sales |-> 0, sales_difference |-> 0]

\* what export_to_excel leaves behind
Exported(returned, opened, written, tables, pad, top, sales_metrics, combined) ==
    [returned |-> returned, writer |-> opened, sheets |-> written,
     grouped |-> tables, padded |-> pad, top_items |-> top,
     metrics |-> sales_metrics, summary |-> combined]

\* lines 318-395 for the frame of receipt_payments, after the shifts; `paid`
\* is paid_out_by_date, `top` is top_items_df
SummaryPart(h, rows, paid, top) ==
    LET dates == [i \in DOMAIN rows |-> ToDate(Cell(h, rows[i], "receipt_date"))]
        money == [i \in DOMAIN rows |-> CellFloat(CellOr(h, rows, rows[i], "money_amount"))]
        total == [i \in DOMAIN rows |-> CellFloat(CellOr(h, rows, rows[i], "total_money"))]
        error == IF FirstError(dates) # "" THEN FirstError(dates)
                 ELSE IF FirstError(money) # "" THEN FirstError(money)
                 ELSE FirstError(total)
        payment_summary ==
            TwoColumns(GroupBySum(
                [i \in DOMAIN rows |->
                    [key |-> Cell(h, rows[i], "payment_name"),
                     amount |-> Adjusted(h, rows[i], money[i].n), quantity |-> 0]]))
        daily_sales ==
            TwoColumns(GroupBySum(
                [i \in DOMAIN rows |->
                    [key |-> dates[i].value,
                     amount |-> Adjusted(h, rows[i], total[i].n), quantity |-> 0]]))
        tables == <<payment_summary, daily_sales, paid>>
        sales_metrics == calculate_sales_metrics(h, rows)
    IN  [error |-> error,
         grouped |-> tables,
         padded |-> PadTables(tables),
         metrics |-> sales_metrics,
         summary |-> CombinedSummary(PadTables(tables), top, sales_metrics)]

\* export_to_excel(data_dict) for data_dict = {"receipt_payments": pays,
\* "receipt_items": items, "shifts": shfts}, where calculate_top_items gave top
export_to_excel(h, pays, items, shfts, top) ==
    LET shifts_sheet == IF shfts # <<>> THEN <<"shifts">> ELSE <<>>
        paid == process_shifts_data(h, shfts)
        with_summary == pays # <<>> /\ {"payment_name", "receipt_date"} \subseteq Columns(h, pays)
        part == SummaryPart(h, pays, paid.table, top)
        payments_sheets ==
            IF pays = <<>> THEN <<>>
            ELSE IF with_summary THEN <<"receipt_payments", "Summary">>
            ELSE <<"receipt_payments">>
        items_sheet == IF items # <<>> THEN <<"receipt_items">> ELSE <<>>
    IN  IF pays = <<>> /\ items = <<>> /\ shfts = <<>>
        THEN Exported("False", "unopened", <<>>, <<>>, <<>>, <<>>, <<>>, <<>>)
        ELSE IF paid.error # ""
        THEN Exported("False", "saved", shifts_sheet, <<>>, <<>>, <<>>, <<>>, <<>>)
        ELSE IF with_summary /\ part.error # ""
        THEN Exported("False", "saved", shifts_sheet, <<>>, <<>>, top, <<>>, <<>>)
        ELSE IF with_summary
        THEN Exported("True", "saved", shifts_sheet \o payments_sheets \o items_sheet,
                      part.grouped, part.padded, top, part.metrics, part.summary)
        ELSE Exported("True", "saved", shifts_sheet \o payments_sheets \o items_sheet,
                      <<>>, <<>>, top, <<>>, <<>>)

(***************************************************************************)
(* main: the receipts are fetched, flattened twice and totalled, the       *)
(* shifts are fetched, and all is exported.  What get_all_data returns is  *)
(* any list of up to MaxReceipts receipts, and any of a few lists of       *)
(* shifts.                                                                 *)
(***************************************************************************)
MainPayment(name, amount) ==
    [fields |-> ("name" :> Str(name) @@ "money_amount" :> Num(amount)),
     nested |-> FALSE]

MainLineItem ==
    [fields |-> ("item_name" :> Str("A") @@ "quantity" :> Num(2)
                    @@ "total_money" :> Num(40)),
     nested |-> FALSE]

\* a sale of 100 or a refund of 20
MainFields(type) ==
    "receipt_type" :> Str(type) @@ "total_money" :> Num(IF type = "SALE" THEN 100 ELSE 20)
        @@ "receipt_date" :> Str("2024-01-01")

\* no payments key, no payment, one payment, or a receipt paid in two parts
MainPaymentLists(total) ==
    {NoList, ListOf(<<>>), ListOf(<<MainPayment("Cash", total)>>),
     ListOf(<<MainPayment("Cash", total - 10), MainPayment("Card", 10)>>)}

MainReceiptsOf(type) ==
    {[fields |-> MainFields(type), payments |-> p, line_items |-> q] :
        p \in MainPaymentLists(IF type = "SALE" THEN 100 ELSE 20),
        q \in {NoList, ListOf(<<>>), ListOf(<<MainLineItem>>)}}

\* a Cash payment whose money_amount is the value, or is missing for Absent
MalformedPayment(amount) ==
    [fields |-> IF amount = Absent THEN "name" :> Str("Cash")
                ELSE ("name" :> Str("Cash") @@ "money_amount" :> amount),
     nested |-> FALSE]

\* a line item whose quantity is null and whose total_money is no number
MalformedLineItem ==
    [fields |-> ("item_name" :> Str("A") @@ "quantity" :> NoneValue
                    @@ "total_money" :> Str("abc")),
     nested |-> FALSE]

\* sales of 100 with one payment that lacks money_amount, or has a null or
\* a non-numeric one, and a sale with such a line item
MalformedReceipts ==
    {[fields |-> MainFields("SALE"),
      payments |-> ListOf(<<MalformedPayment(amount)>>),
      line_items |-> NoList] : amount \in {Absent, NoneValue, Str("abc")}}
        \cup {[fields |-> MainFields("SALE"),
               payments |-> ListOf(<<MainPayment("Cash", 100)>>),
               line_items |-> ListOf(<<MalformedLineItem>>)]}

MainReceipts ==
    MainReceiptsOf("SALE") \cup MainReceiptsOf("REFUND") \cup MalformedReceipts

ShiftDict(date, paid_out) ==
    DictObj(DictOf("opened_at" :> Str(date) @@ "paid_out" :> Num(paid_out)))

\* what get_all_data("shifts") returns
MainShiftLists ==
    {<<>>,
     <<ShiftDict("2024-01-01", 5)>>,
     <<ShiftDict("2024-01-01", 5), ShiftDict("2024-01-02", 7)>>}

MainInit ==
    /\ WalkIdle
    /\ RecordsIdle

\* the pass of the loop for "receipts", lines 416-432
FetchAndFlattenReceipts ==
    /\ done = {}
    /\ \E lits \in SeqsUpTo(MainReceipts, MaxReceipts) :
       \E loaded \in {LoadReceipts([heap |-> <<>>, out |-> <<>>], lits)} :
       \E pays \in {flatten_receipt_payments(loaded.heap, loaded.out)} :
       \E totalled \in {calculate_payment_totals(pays.heap, pays.out)} :
       \E items \in {flatten_receipt_line_items(totalled.heap, loaded.out)} :
            /\ receipts' = loaded.out
            /\ payment_totals' = totalled.totals
            /\ raised' = totalled.error
            /\ payments' = pays.out
            /\ pay_src' = pays.src
            /\ IF totalled.error # ""
               THEN /\ heap' = pays.heap
                    /\ UNCHANGED <<line_items, line_src>>
               ELSE /\ heap' = items.heap
                    /\ line_items' = items.out
                    /\ line_src' = items.src
    /\ done' = {"receipts"}
    /\ UNCHANGED <<mutated, walkVars, exportVars>>

\* the pass of the loop for "shifts", lines 416 and 434-435
FetchShifts ==
    /\ done = {"receipts"}
    /\ raised = ""
    /\ \E fetched \in MainShiftLists :
        /\ heap' = heap \o fetched
        /\ shifts' = [i \in DOMAIN fetched |-> Ref(Len(heap) + i)]
    /\ done' = {"receipts", "shifts"}
    /\ UNCHANGED <<receipts, payments, line_items, pay_src, line_src, mutated>>
    /\ UNCHANGED <<writer, sheets, grouped, padded, top_items, metrics, summary, exported>>
    /\ UNCHANGED <<walkVars, totalsVars>>

\* lines 437-445: export_to_excel(all_data, filename) and the message
Export ==
    /\ done = {"receipts", "shifts"}
    /\ \E top \in (IF line_items # <<>>
                   THEN calculate_top_items(heap, line_items, TopN) ELSE {<<>>}) :
       \E out \in {export_to_excel(heap, payments, line_items, shifts, top)} :
            /\ exported' = out.returned
            /\ writer' = out.writer
            /\ sheets' = out.sheets
            /\ grouped' = out.grouped
            /\ padded' = out.padded
            /\ top_items' = out.top_items
            /\ metrics' = out.metrics
            /\ summary' = out.summary
    /\ done' = {"receipts", "shifts", "export"}
    /\ UNCHANGED <<heap, receipts, payments, line_items, pay_src, line_src, mutated>>
    /\ UNCHANGED <<shifts, walkVars, totalsVars>>

main ==
    \/ FetchAndFlattenReceipts
    \/ FetchShifts
    \/ Export

Spec == MainInit /\ [][main]_vars

(***************************************************************************)
(* Properties of the run of main.                                          *)
(***************************************************************************)
ExportRan == "export" \in done

SheetNames == {sheets[i] : i \in DOMAIN sheets}

\* the sum of total_money over the raw receipts of the type, each once
RECURSIVE RawTotal(_, _)
RawTotal(type, i) ==
    IF i > Len(receipts) THEN 0
    ELSE (IF Get(heap, receipts[i], "receipt_type") = Str(type)
          THEN NumberOf(Get(heap, receipts[i], "total_money")) ELSE 0)
            + RawTotal(type, i + 1)

\* the value written in the Summary sheet beside the label
Metric(label) ==
    summary.metrics[CHOOSE i \in 1..3 : summary.metrics[i].label = Str(label)].value

\* C6: in every run that writes a Summary sheet, Total Gross Sales is the
\* sum of total_money over the raw SALE receipts, each receipt counted once
\* whatever its number of payments, Total Net Sales is gross minus the sum
\* of total_money over the raw REFUND receipts, and Gross-Net Difference is
\* gross minus net and is not negative.
C6_MetricsCountEachReceiptOnce ==
    (ExportRan /\ "Summary" \in SheetNames) =>
        /\ Metric("Total Gross Sales") = Num(RawTotal("SALE", 1))
        /\ Metric("Total Net Sales") = Num(RawTotal("SALE", 1) - RawTotal("REFUND", 1))
        /\ Metric("Gross-Net Difference").n
                = Metric("Total Gross Sales").n - Metric("Total Net Sales").n
        /\ Metric("Gross-Net Difference").n >= 0

\* the datasets of all_data that hold at least one row
NonEmptyDatasets ==
    {name \in {"shifts", "receipt_payments", "receipt_items"} :
        CASE name = "shifts" -> shifts # <<>>
          [] name = "receipt_payments" -> payments # <<>>
          [] name = "receipt_items" -> line_items # <<>>}

\* C7: when export_to_excel has run: if the fetch of every endpoint gave no
\* records the writer was never opened and the run reports failure; if the
\* fetch of some endpoint gave records, a report is written whose data
\* sheets are exactly those of the non-empty datasets, each once.
C7_ReportWrittenWhenAnyEndpointYields ==
    ExportRan =>
        IF receipts = <<>> /\ shifts = <<>>
        THEN writer = "unopened" /\ exported = "False" /\ sheets = <<>>
        ELSE /\ exported = "True"
             /\ writer = "saved"
             /\ SheetNames \ {"Summary"} = NonEmptyDatasets
             /\ \A i, j \in DOMAIN sheets : sheets[i] = sheets[j] => i = j

\* C11: for every receipt set, including receipts whose payments or line
\* items lack an amount field or carry a null or non-numeric one, no
\* flattening or aggregation step raises: once the receipts are flattened
\* and totalled nothing was raised, so the run goes on to the export step.
C11_NoStepRaises == "receipts" \in done => raised = ""

(***************************************************************************)
(* JSON bodies of the API.  A body is a list or an object; of an object    *)
(* only the keys get_all_data looks at are kept: the key named after the   *)
(* endpoint, "items" and "cursor".  A key that is absent is marked by      *)
(* NoKey; the value of a present collection key is a list of raw records.  *)
(***************************************************************************)

\* the k-th raw record of the collection `coll` of page n
RawItem(n, coll, k) == [page |-> n, coll |-> coll, k |-> k]

PageSizes == {0, 1, 2}

ItemList(n, coll, size) == [k \in 1..size |-> RawItem(n, coll, k)]

\* cursor values: absent key, the empty string, a continuation token
Cursors == {NoKey, "", "c1"}

ListBody(n, size) ==
    [isList |-> TRUE, list |-> ItemList(n, "list", size),
     hasEndpoint |-> FALSE, endpointItems |-> <<>>,
     hasItems |-> FALSE, items |-> <<>>, cursor |-> NoKey]

ObjectBody(n, hasE, sizeE, hasI, sizeI, c) ==
    [isList |-> FALSE, list |-> <<>>,
     hasEndpoint |-> hasE,
     endpointItems |-> IF hasE THEN ItemList(n, "endpoint", sizeE) ELSE <<>>,
     hasItems |-> hasI,
     items |-> IF hasI THEN ItemList(n, "items", sizeI) ELSE <<>>,
     cursor |-> c]

\* the bodies the n-th request can be answered with
ListBodies(n) == {ListBody(n, s) : s \in PageSizes}

ObjectBodies(n) ==
    {ObjectBody(n, hasE, sizeE, hasI, sizeI, c) :
        hasE \in BOOLEAN, sizeE \in PageSizes,
        hasI \in BOOLEAN, sizeI \in PageSizes, c \in Cursors}

\* a response that failed: HTTP status 4xx/5xx, or a transport error
HTTPErrorResponse == [status |-> "http_error", body |-> ListBody(0, 0)]
TransportErrorResponse == [status |-> "transport_error", body |-> ListBody(0, 0)]
OkResponse(b) == [status |-> "ok", body |-> b]

\* data.get('cursor') is truthy
CursorTruthy(data) == data.cursor \notin {NoKey, ""}

\* f"{API_BASE_URL}/{endpoint}?cursor={data['cursor']}" if data.get('cursor') else None
NextUrl(data) == IF CursorTruthy(data) THEN <<endpoint, data.cursor>> ELSE <<>>

WalkInit ==
    /\ endpoint \in {"receipts", "shifts"}
    /\ params \in {None, "given"}
    /\ url = <<endpoint>>
    /\ all_data = <<>>
    /\ requests = 0
    /\ history = <<>>
    /\ wpc = "loop"
    /\ result = <<>>
    /\ RecordsIdle

\* the guard of one more pass through `while url:`
CanRequest ==
    /\ wpc = "loop"
    /\ url # <<>>
    /\ requests < MaxRequests

\* what every pass of the loop that got a good response does
Received(data) ==
    /\ requests' = requests + 1
    /\ history' = Append(history, OkResponse(data))
    /\ params' = None
    /\ UNCHANGED <<endpoint, wpc, result>>
    /\ UNCHANGED recordVars

\* isinstance(data, list): the elements are appended, url is left as it is
ReceiveList ==
    /\ CanRequest
    /\ \E data \in ListBodies(requests + 1) :
        /\ all_data' = all_data \o data.list
        /\ UNCHANGED url
        /\ Received(data)

\* endpoint in data
ReceiveEndpointPage ==
    /\ CanRequest
    /\ \E data \in ObjectBodies(requests + 1) :
        /\ data.hasEndpoint
        /\ all_data' = all_data \o data.endpointItems
        /\ url' = NextUrl(data)
        /\ Received(data)

\* 'cursor' in data
ReceiveCursorPage ==
    /\ CanRequest
    /\ \E data \in ObjectBodies(requests + 1) :
        /\ ~data.hasEndpoint
        /\ data.cursor # NoKey
        /\ all_data' = all_data \o data.items
        /\ url' = NextUrl(data)
        /\ Received(data)

\* else: the body itself is appended as one record
ReceiveObject ==
    /\ CanRequest
    /\ \E data \in ObjectBodies(requests + 1) :
        /\ ~data.hasEndpoint
        /\ data.cursor = NoKey
        /\ all_data' = Append(all_data, data)
        /\ url' = <<>>
        /\ Received(data)

\* a handler that gives up what was accumulated when a page fails
ReceiveHTTPError_DropsData ==
    /\ CanRequest
    /\ requests' = requests + 1
    /\ history' = Append(history, HTTPErrorResponse)
    /\ wpc' = "break"
    /\ all_data' = <<>>
    /\ UNCHANGED <<endpoint, params, url, result>>
    /\ UNCHANGED recordVars

\* except requests.exceptions.HTTPError: break
ReceiveHTTPError ==
    /\ CanRequest
    /\ requests' = requests + 1
    /\ history' = Append(history, HTTPErrorResponse)
    /\ wpc' = "break"
    /\ UNCHANGED <<endpoint, params, url, all_data, result>>
    /\ UNCHANGED recordVars

\* except Exception: break
ReceiveTransportError ==
    /\ CanRequest
    /\ requests' = requests + 1
    /\ history' = Append(history, TransportErrorResponse)
    /\ wpc' = "break"
    /\ UNCHANGED <<endpoint, params, url, all_data, result>>
    /\ UNCHANGED recordVars

\* return all_data
Return ==
    /\ \/ wpc = "break"
       \/ wpc = "loop" /\ url = <<>>
    /\ wpc' = "returned"
    /\ result' = all_data
    /\ UNCHANGED <<endpoint, params, url, all_data, requests, history>>
    /\ UNCHANGED recordVars

get_all_data ==
    \/ ReceiveList
    \/ ReceiveEndpointPage
    \/ ReceiveCursorPage
    \/ ReceiveObject
    \/ ReceiveHTTPError
    \/ ReceiveTransportError
    \/ Return

SpecWalk == WalkInit /\ [][get_all_data]_vars

(***************************************************************************)
(* Properties of get_all_data.                                             *)
(***************************************************************************)
IsOk(r) == r.status = "ok"

Last(s) == s[Len(s)]
Front(s) == SubSeq(s, 1, Len(s) - 1)

\* the page is a mapping {<endpoint>: [...], cursor?} or {items: [...], cursor?}
IsCollectionPage(data) ==
    /\ ~data.isList
    /\ data.hasEndpoint # data.hasItems

\* the items such a page carries
PageItems(data) == IF data.hasEndpoint THEN data.endpointItems ELSE data.items

RECURSIVE ConcatPageItems(_)
ConcatPageItems(pages) ==
    IF pages = <<>> THEN <<>>
    ELSE ConcatPageItems(Front(pages)) \o PageItems(Last(pages).body)

\* every response is a good collection page, every page but the last carries
\* a non-empty cursor and the last carries none
IsCursorChain(pages) ==
    /\ pages # <<>>
    /\ \A i \in 1..Len(pages) :
        /\ IsOk(pages[i])
        /\ IsCollectionPage(pages[i].body)
        /\ CursorTruthy(pages[i].body) <=> i < Len(pages)

\* C1: a walk over a cursor chain of collection pages issues one request per
\* page and returns the concatenation of the pages' items in page order.
C1_WalkReturnsConcatenation ==
    (wpc = "returned" /\ IsCursorChain(history)) =>
        /\ requests = Len(history)
        /\ result = ConcatPageItems(history)

\* what the walk has taken from a good response that did not end it
RECURSIVE Accumulated(_)
Accumulated(pages) ==
    IF pages = <<>> THEN <<>>
    ELSE LET data == Last(pages).body
         IN  Accumulated(Front(pages)) \o
                (IF data.isList THEN data.list ELSE PageItems(data))

FailedAtLastPage == history # <<>> /\ ~IsOk(Last(history))

\* C2: when page k fails, the walk has left the loop for good, holds exactly
\* the items of pages 1..k-1, returns them, and does not raise.
C2_FailureReturnsPartial ==
    /\ wpc \in {"loop", "break", "returned"}
    /\ FailedAtLastPage =>
        /\ wpc \in {"break", "returned"}
        /\ requests = Len(history)
        /\ all_data = Accumulated(Front(history))
        /\ wpc = "returned" => result = Accumulated(Front(history))

\* a walk that failed at its third page after two pages with items has returned
C2_Witness ==
    /\ wpc = "returned"
    /\ Len(history) = 3
    /\ ~IsOk(history[3])
    /\ Len(result) >= 2
    /\ history[1].body.hasEndpoint
    /\ ~history[2].body.hasEndpoint
    /\ ~history[2].body.isList

\* C10: a good response that is a bare list is the last response of the walk:
\* no request follows it, and its elements are in the output once.
C10_BareListIsTerminal ==
    \A i \in 1..Len(history) :
        (IsOk(history[i]) /\ history[i].body.isList) =>
            /\ i = Len(history)
            /\ url = <<>>

====
